---- MODULE Spec2Model ----
(***************************************************************************)
(* KoSpeech, utils/feature.py: the acoustic feature extractors             *)
(* (get_librosa_melspectrogram, get_librosa_mfcc) and the SpecAugment      *)
(* masking transform (spec_augment).                                       *)
(*                                                                         *)
(* SpecAugment is one execution of spec_augment.  SpecSeeded is three      *)
(* executions of it side by side, on equal matrices with equal parameters, *)
(* each started with its own generator states.  SpecExtract is a caller    *)
(* that runs an extractor twice on the same file.                          *)
(***************************************************************************)
EXTENDS Integers, Sequences, FiniteSets, TLC

\* ---------------------------------------------------------------- bounds
MaxSeq == 2
MaxFeat == 2
MaxT == 3
MaxMasks == 2
\* The masks, over both axes, of each of the executions run side by side.
SeededMasks == 2

\* The loaded signals tried are LenUnit, 2 * LenUnit, ... MaxLen * LenUnit
\* samples long; n_mels and n_mfcc are tried from 1 to MaxN.
MaxLen == 3
LenUnit == 400
MaxN == 2

\* The mask bounds tried: a negative one, none, the narrowest and the widest.
TValues == {0 - 2, 0, 1, MaxT}

VARIABLES
    \* spec_augment
    runs,           \* the executions of spec_augment under way
    feat0,          \* the content every argument tensor is created with
    T, F, time_mask_num, freq_mask_num,
    run             \* per execution: position, loop index, the argument
                    \* tensor, both generators' states and the outcome

avars == <<runs, feat0, T, F, time_mask_num, freq_mask_num, run>>

VARIABLES
    \* get_librosa_melspectrogram, get_librosa_mfcc
    file,           \* the audio file at filepath
    ecall,          \* the extractor call in progress (0 before the first)
    args,           \* call -> the arguments it was made with
    epc,            \* position inside the extractor
    signal,         \* the local "signal"
    feat,           \* the local "feat"
    opened,         \* attempts of this call to open the file
    logged,         \* messages this call handed to logger.info
    eout            \* call -> how the call ended and what it returned

evars == <<file, ecall, args, epc, signal, feat, opened, logged, eout>>

vars == <<avars, evars>>

\* ------------------------------------------------------ Python semantics
Min(a, b) == IF a < b THEN a ELSE b
Max(a, b) == IF a > b THEN a ELSE b

\* int(x) of the float a / b, b > 0: truncation toward zero.
PyInt(a, b) == IF a >= 0 THEN a \div b ELSE 0 - ((0 - a) \div b)

\* The normalisation of a slice bound against a dimension of length n.
SliceBound(x, n) == IF x < 0 THEN Max(x + n, 0) ELSE Min(x, n)

\* The indices the slice lo:hi selects in a dimension of length n.
SliceIndices(lo, hi, n) ==
    {i \in 0..(n - 1) : SliceBound(lo, n) <= i /\ i < SliceBound(hi, n)}

\* Resolution of one raw output of numpy's generator under the bound hi: the
\* raw output u stands for the fraction u / UnitRes(hi) of [0, 1), just fine
\* enough that every width the bound allows is drawn.
UnitRes(hi) == Max(1, IF hi < 0 THEN 0 - hi ELSE hi)

\* np.random.uniform(low=0.0, high=hi) for the raw output u, as the
\* numerator of a fraction over UnitRes(hi): low + (high - low) * u / UnitRes.
NpUniform(hi, u) == hi * u

\* A randint whose range runs one past b.
RandIntPastEnd(a, b, r) == a + (r % (b - a + 2))

\* random.randint(a, b), a <= b, for the raw output r: a + randbelow(b - a + 1).
RandInt(a, b, r) == a + (r % (b - a + 1))

\* ------------------------------------------------------------- matrices
\* A tensor of shape (rows, cols): cell[i + 1][j + 1] is feat[i, j].
Matrix(rows, cols) ==
    [rows |-> rows, cols |-> cols,
     cell |-> [i \in 1..rows |-> [j \in 1..cols |-> (i + j) % 3]]]

\* feat[lo:hi, 0] = 0: the first channel only.
ZeroRowsFirstChannel(m, lo, hi) ==
    LET a == SliceBound(lo, m.rows)
        b == SliceBound(hi, m.rows)
    IN  [m EXCEPT !.cell = [i \in 1..m.rows |-> [j \in 1..m.cols |->
            IF a <= i - 1 /\ i - 1 < b /\ j = 1 THEN 0 ELSE m.cell[i][j]]]]

\* feat[lo:hi, :] = 0
ZeroRows(m, lo, hi) ==
    LET a == SliceBound(lo, m.rows)
        b == SliceBound(hi, m.rows)
    IN  [m EXCEPT !.cell = [i \in 1..m.rows |-> [j \in 1..m.cols |->
            IF a <= i - 1 /\ i - 1 < b THEN 0 ELSE m.cell[i][j]]]]

\* feat[:, lo:hi] = 0
ZeroCols(m, lo, hi) ==
    LET a == SliceBound(lo, m.cols)
        b == SliceBound(hi, m.cols)
    IN  [m EXCEPT !.cell = [i \in 1..m.rows |-> [j \in 1..m.cols |->
            IF a <= j - 1 /\ j - 1 < b THEN 0 ELSE m.cell[i][j]]]]

\* ----------------------------------------------------------- generators
\* A generator is deterministic: its state (seed, pos) fixes its next output.
\* The raw outputs of one step are therefore drawn per generator state, not
\* per execution: executions whose generators are in the same state get the
\* same output, and otherwise their outputs are unrelated.
Raw(n) == 0..(n - 1)

Draws(states, n) == [states -> Raw(n)]

Advance(gen) == [gen EXCEPT !.pos = @ + 1]

\* ------------------------------------------------------- the extractors
\* Program constants of the two extractors.
HopLength == 160
NMfcc == 33
\* librosa.effects.split frames the signal with its default hop_length.
SplitHop == 512

Formats == {"pcm", "wav", "flac"}
MelTypes == {"log_mel", "mel"}

\* The signal a readable file loads as is abstracted to its length in samples
\* and, per frame librosa.effects.split cuts it into, whether the frame is
\* within top_db = 30 dB of the loudest one.  The loudest frame always is.
SplitFrames(len) == 1 + (len \div SplitHop)

Files ==
    {[readable |-> FALSE, len |-> 0, loud |-> <<>>]} \cup
    {[readable |-> TRUE, len |-> n * LenUnit, loud |-> l] :
        n \in 1..MaxLen,
        l \in UNION {[1..SplitFrames(m * LenUnit) -> BOOLEAN] : m \in 1..MaxLen}}

WellFormed(f) ==
    f.readable => /\ Len(f.loud) = SplitFrames(f.len)
                  /\ \E i \in 1..Len(f.loud) : f.loud[i]

\* A signal is kept as the spans <<start, end>> of source samples it is the
\* concatenation of; a feature matrix as the signal it was computed from, its
\* kind, and per axis what the axis ranges over ("ch" or "time") and which
\* channel or frame sits at each index.  The entry at [i, j] stands for the
\* number librosa computes for that channel and frame of that signal.
Unset == [kind |-> "unset"]

SigLen(sig) ==
    LET RECURSIVE Sum(_)
        Sum(i) == IF i = 0 THEN 0 ELSE Sum(i - 1) + (sig[i][2] - sig[i][1])
    IN  Sum(Len(sig))

\* librosa.effects.split(signal, top_db=30): the maximal runs of non-silent
\* frames, as sample intervals clipped to the signal's length.
NonSilentIntervals(f) ==
    LET n == Len(f.loud)
        starts == {i \in 1..n : f.loud[i] /\ (i = 1 \/ ~f.loud[i - 1])}
        EndOf(i) == CHOOSE j \in i..n :
                       /\ \A m \in i..j : f.loud[m]
                       /\ (j = n \/ ~f.loud[j + 1])
        RECURSIVE Build(_)
        Build(i) ==
            IF i > n THEN <<>>
            ELSE IF i \in starts
                 THEN <<<<Min((i - 1) * SplitHop, f.len),
                          Min(EndOf(i) * SplitHop, f.len)>>>> \o Build(EndOf(i) + 1)
                 ELSE Build(i + 1)
    IN  Build(1)

\* np.concatenate([signal, signal[start:end], ...]): the spans are appended to
\* the signal instead of replacing it.
AppendNonSilent(sig, spans) == sig \o spans

\* Line 61 and 114: np.concatenate([signal[start:end] for start, end in ...]),
\* signal being the whole loaded file.
ConcatNonSilent(sig, spans) == spans

Frames(sig) == 1 + (SigLen(sig) \div HopLength)

Iota(n) == [i \in 1..n |-> i - 1]

\* Line 63: librosa.feature.melspectrogram(signal, n_mels=n_mels, ...), of
\* shape (n_mels, frames).
MelSpectrogramOf(sig, n_mels) ==
    [kind |-> "mel", of |-> sig,
     dims |-> <<[over |-> "ch", idx |-> Iota(n_mels)],
                [over |-> "time", idx |-> Iota(Frames(sig))]>>]

\* librosa.feature.mfcc(signal, ..., n_mfcc=n_mfcc, ...)
MfccOfRequested(sig, n_mfcc) ==
    [kind |-> "mfcc", of |-> sig,
     dims |-> <<[over |-> "ch", idx |-> Iota(n_mfcc)],
                [over |-> "time", idx |-> Iota(Frames(sig))]>>]

\* Line 116: librosa.feature.mfcc(signal, 16000, hop_length=160, n_mfcc=33, ...)
MfccOf(sig, n_mfcc) ==
    [kind |-> "mfcc", of |-> sig,
     dims |-> <<[over |-> "ch", idx |-> Iota(NMfcc)],
                [over |-> "time", idx |-> Iota(Frames(sig))]>>]

\* Line 66: librosa.amplitude_to_db(feat, ref=np.max), entry by entry.
AmplitudeToDb(m) == [m EXCEPT !.kind = "log_mel"]

Reversed(q) == [i \in 1..Len(q) |-> q[Len(q) + 1 - i]]

\* feat[::-1, :]: the first axis reversed.
ReverseFirstAxis(m) == [m EXCEPT !.dims[1].idx = Reversed(@)]

\* Line 68 and 118: feat[:, ::-1]
ReverseSecondAxis(m) == [m EXCEPT !.dims[2].idx = Reversed(@)]

\* Line 70 and 120: np.swapaxes(feat, 0, 1)
SwapAxes(m) == [m EXCEPT !.dims = <<m.dims[2], m.dims[1]>>]

\* The call in progress tests format == 'wav' first and takes anything else
\* for pcm.
IsNotWav(a) == a.format # "wav"

\* Line 47 and 100: format == 'pcm'
IsPcm(a) == a.format = "pcm"

\* Line 54 and 107: format == 'wav'
IsWav(a) == a.format = "wav"

EArgs ==
    [fn : {"mel"}, n : 1..MaxN, del_silence : BOOLEAN, input_reverse : BOOLEAN,
     mel_type : MelTypes, format : Formats]
    \cup
    [fn : {"mfcc"}, n : 1..MaxN, del_silence : BOOLEAN, input_reverse : BOOLEAN,
     mel_type : {"none"}, format : Formats]

NoCall == [kind |-> "none", val |-> Unset, opened |-> 0, logged |-> 0,
           signal |-> Unset, feat |-> Unset]

ExtractIdle ==
    /\ file = [readable |-> FALSE, len |-> 0, loud |-> <<>>]
    /\ ecall = 0
    /\ args = <<>>
    /\ epc = "idle"
    /\ signal = Unset
    /\ feat = Unset
    /\ opened = 0
    /\ logged = 0
    /\ eout = <<>>

AugmentIdle ==
    /\ runs = {}
    /\ feat0 = [rows |-> 0, cols |-> 0, cell |-> <<>>]
    /\ T = 0 /\ F = 0 /\ time_mask_num = 0 /\ freq_mask_num = 0
    /\ run = <<>>

InitExtract ==
    /\ AugmentIdle
    /\ file \in {f \in Files : WellFormed(f)}
    /\ ecall = 0
    /\ args = <<>>
    /\ epc = "idle"
    /\ signal = Unset
    /\ feat = Unset
    /\ opened = 0
    /\ logged = 0
    /\ eout = <<>>

\* The caller calls an extractor on the file, and once more: the same
\* function with the same n_mels (n_mfcc) and format, and any flags.
CallExtract ==
    /\ epc \in {"idle", "done", "raised"}
    /\ ecall < 2
    /\ \E a \in EArgs :
          /\ ecall = 1 => /\ a.fn = args[1].fn
                          /\ a.n = args[1].n
                          /\ a.format = args[1].format
          /\ args' = Append(args, a)
    /\ ecall' = ecall + 1
    /\ epc' = "load"
    /\ signal' = Unset
    /\ feat' = Unset
    /\ opened' = 0
    /\ logged' = 0
    /\ eout' = Append(eout, NoCall)
    /\ UNCHANGED <<file>>
    /\ UNCHANGED avars

Ends(kind, val) ==
    eout' = [eout EXCEPT ![ecall] =
                [kind |-> kind, val |-> val, opened |-> opened', logged |-> logged',
                 signal |-> signal', feat |-> feat']]

\* Lines 47-53 (100-106), format 'pcm' and np.memmap succeeds.
LoadPcm ==
    /\ epc = "load"
    /\ IsPcm(args[ecall])
    /\ file.readable
    /\ opened' = opened + 1
    /\ signal' = <<<<0, file.len>>>>
    /\ epc' = "silence"
    /\ UNCHANGED <<file, ecall, args, feat, logged, eout>>
    /\ UNCHANGED avars

\* The except clause re-raises after logging.
PcmReadFailsAndRaises ==
    /\ epc = "load"
    /\ IsPcm(args[ecall])
    /\ ~file.readable
    /\ opened' = opened + 1
    /\ logged' = logged + 1
    /\ epc' = "raised"
    /\ UNCHANGED <<signal, feat>>
    /\ Ends("IOError", Unset)
    /\ UNCHANGED <<file, ecall, args>>
    /\ UNCHANGED avars

\* Lines 48-52 (101-105), format 'pcm' and np.memmap raises: the bare except
\* logs one message and returns None.
PcmReadFails ==
    /\ epc = "load"
    /\ IsPcm(args[ecall])
    /\ ~file.readable
    /\ opened' = opened + 1
    /\ logged' = logged + 1
    /\ epc' = "done"
    /\ UNCHANGED <<signal, feat>>
    /\ Ends("None", Unset)
    /\ UNCHANGED <<file, ecall, args>>
    /\ UNCHANGED avars

\* Lines 54-55 (107-108), format 'wav' and librosa.core.load succeeds.
LoadWav ==
    /\ epc = "load"
    /\ ~IsPcm(args[ecall]) /\ IsWav(args[ecall])
    /\ file.readable
    /\ opened' = opened + 1
    /\ signal' = <<<<0, file.len>>>>
    /\ epc' = "silence"
    /\ UNCHANGED <<file, ecall, args, feat, logged, eout>>
    /\ UNCHANGED avars

\* Lines 54-55 (107-108), format 'wav' and librosa.core.load raises: nothing
\* catches it.
WavReadFails ==
    /\ epc = "load"
    /\ ~IsPcm(args[ecall]) /\ IsWav(args[ecall])
    /\ ~file.readable
    /\ opened' = opened + 1
    /\ epc' = "raised"
    /\ UNCHANGED <<signal, feat, logged>>
    /\ Ends("IOError", Unset)
    /\ UNCHANGED <<file, ecall, args>>
    /\ UNCHANGED avars

\* Lines 56-57 (109-110): raise ValueError("Invalid format !!")
InvalidFormat ==
    /\ epc = "load"
    /\ ~IsPcm(args[ecall]) /\ ~IsWav(args[ecall])
    /\ epc' = "raised"
    /\ UNCHANGED <<signal, feat, opened, logged>>
    /\ Ends("ValueError", Unset)
    /\ UNCHANGED <<file, ecall, args>>
    /\ UNCHANGED avars

\* Lines 59-61 (112-114)
DelSilence ==
    /\ epc = "silence"
    /\ signal' = IF args[ecall].del_silence
                 THEN ConcatNonSilent(signal, NonSilentIntervals(file))
                 ELSE signal
    /\ epc' = "feature"
    /\ UNCHANGED <<file, ecall, args, feat, opened, logged, eout>>
    /\ UNCHANGED avars

\* Line 63, in get_librosa_melspectrogram
MelSpectrogram ==
    /\ epc = "feature"
    /\ args[ecall].fn = "mel"
    /\ feat' = MelSpectrogramOf(signal, args[ecall].n)
    /\ epc' = "scale"
    /\ UNCHANGED <<file, ecall, args, signal, opened, logged, eout>>
    /\ UNCHANGED avars

\* Lines 65-66, in get_librosa_melspectrogram
LogMel ==
    /\ epc = "scale"
    /\ feat' = IF args[ecall].mel_type = "log_mel" THEN AmplitudeToDb(feat) ELSE feat
    /\ epc' = "reverse"
    /\ UNCHANGED <<file, ecall, args, signal, opened, logged, eout>>
    /\ UNCHANGED avars

\* Line 116, in get_librosa_mfcc
Mfcc ==
    /\ epc = "feature"
    /\ args[ecall].fn = "mfcc"
    /\ feat' = MfccOf(signal, args[ecall].n)
    /\ epc' = "reverse"
    /\ UNCHANGED <<file, ecall, args, signal, opened, logged, eout>>
    /\ UNCHANGED avars

\* Lines 67-70 (117-120)
ReverseAndReturn ==
    /\ epc = "reverse"
    /\ feat' = IF args[ecall].input_reverse THEN ReverseSecondAxis(feat) ELSE feat
    /\ epc' = "done"
    /\ UNCHANGED <<signal, opened, logged>>
    /\ Ends("tensor", SwapAxes(feat'))
    /\ UNCHANGED <<file, ecall, args>>
    /\ UNCHANGED avars

NextExtract ==
    \/ CallExtract
    \/ LoadPcm
    \/ PcmReadFails
    \/ LoadWav
    \/ WavReadFails
    \/ InvalidFormat
    \/ DelSilence
    \/ MelSpectrogram
    \/ LogMel
    \/ Mfcc
    \/ ReverseAndReturn

SpecExtract == InitExtract /\ [][NextExtract]_vars

\* -------------------------------------------------------------- spec_augment
NewRun(m, s, q) ==
    [pc |-> "idle", k |-> 0, feat |-> m,
     np |-> [seed |-> s, pos |-> 0], py |-> [seed |-> q, pos |-> 0],
     np0 |-> [seed |-> s, pos |-> 0], py0 |-> [seed |-> q, pos |-> 0],
     zrows |-> {}, zcols |-> {}, nmask |-> [time |-> 0, freq |-> 0],
     out |-> "none", ret |-> "none"]

InitParams ==
    /\ \E r \in 0..MaxSeq, c \in 0..MaxFeat : feat0 = Matrix(r, c)
    /\ T \in TValues
    /\ F \in TValues
    /\ time_mask_num \in 0..MaxMasks
    /\ freq_mask_num \in 0..MaxMasks

\* One execution.
InitAugment ==
    /\ ExtractIdle
    /\ InitParams
    /\ runs = {1}
    /\ run = [c \in runs |-> NewRun(feat0, "a", "a")]

\* Three executions side by side, under bounds that are not negative.  The
\* second starts with both generators in the states the first starts in, the
\* third with only one of them in that state.
InitSeeded ==
    /\ ExtractIdle
    /\ InitParams
    /\ T >= 0 /\ F >= 0
    /\ time_mask_num + freq_mask_num <= SeededMasks
    /\ runs = 1..3
    /\ \E third \in {<<"a", "b">>, <<"b", "a">>} :
          run = [c \in runs |-> IF c = 3 THEN NewRun(feat0, third[1], third[2])
                                ELSE NewRun(feat0, "a", "a")]

\* The caller enters spec_augment(feat, T, F, time_mask_num, freq_mask_num).
CallAugment ==
    /\ \A c \in runs : run[c].pc = "idle"
    /\ run' = [c \in runs |-> [run[c] EXCEPT !.pc = "time", !.k = 0]]
    /\ UNCHANGED <<runs, feat0, T, F, time_mask_num, freq_mask_num>>
    /\ UNCHANGED evars

\* Lines 145-146: the width of a mask under the bound hi.
Width(hi, u) == PyInt(NpUniform(hi, u), UnitRes(hi))

\* The raw outputs of Python's generator told apart in one iteration over a
\* dimension of length n under the bound hi: as many as the widest range
\* 0..(n - w) randint is asked for has values, w the narrowest width.
PyRes(n, hi) == n - Min(0, Width(hi, UnitRes(hi) - 1)) + 1

\* Lines 145-147: the span [at, at + w) one time-mask iteration of the
\* execution rc assigns, for the raw outputs u and r of the two generators.
\* randint(0, b) with b < 0 raises ValueError before it draws.
TimeSpan(rc, u, r) ==
    LET t == Width(T, u) IN
    IF rc.feat.rows - t < 0 THEN [raised |-> TRUE, w |-> t, at |-> 0]
    ELSE [raised |-> FALSE, w |-> t, at |-> RandInt(0, rc.feat.rows - t, r)]

\* Lines 152-154, likewise for one frequency-mask iteration.
FreqSpan(rc, u, r) ==
    LET f == Width(F, u) IN
    IF rc.feat.cols - f < 0 THEN [raised |-> TRUE, w |-> f, at |-> 0]
    ELSE [raised |-> FALSE, w |-> f, at |-> RandInt(0, rc.feat.cols - f, r)]

\* Lines 144-148, one iteration of "for _ in range(time_mask_num)".
TimeMaskStep(rc, u, r) ==
    LET sp == TimeSpan(rc, u, r) IN
    IF sp.raised
    THEN [rc EXCEPT !.np = Advance(@), !.pc = "raised", !.out = "ValueError"]
    ELSE [rc EXCEPT !.np = Advance(@), !.py = Advance(@),
                    !.feat = ZeroRows(@, sp.at, sp.at + sp.w),
                    !.zrows = @ \cup SliceIndices(sp.at, sp.at + sp.w, rc.feat.rows),
                    !.nmask.time = @ + 1,
                    !.k = @ + 1]

\* Lines 151-155, one iteration of "for _ in range(freq_mask_num)".
FreqMaskStep(rc, u, r) ==
    LET sp == FreqSpan(rc, u, r) IN
    IF sp.raised
    THEN [rc EXCEPT !.np = Advance(@), !.pc = "raised", !.out = "ValueError"]
    ELSE [rc EXCEPT !.np = Advance(@), !.py = Advance(@),
                    !.feat = ZeroCols(@, sp.at, sp.at + sp.w),
                    !.zcols = @ \cup SliceIndices(sp.at, sp.at + sp.w, rc.feat.cols),
                    !.nmask.freq = @ + 1,
                    !.k = @ + 1]

\* range(time_mask_num + 1)
TimeLoopRunsOnceMore(rc) == rc.pc = "time" /\ rc.k <= time_mask_num

\* range(time_mask_num) and range(freq_mask_num) have an index left.
TimeLoopRuns(rc) == rc.pc = "time" /\ rc.k < time_mask_num
FreqLoopRuns(rc) == rc.pc = "freq" /\ rc.k < freq_mask_num

InTime == {c \in runs : TimeLoopRuns(run[c])}
InFreq == {c \in runs : FreqLoopRuns(run[c])}

\* Line 145 and 152 call np.random.uniform, lines 147 and 154 random.randint:
\* the module-level functions, which draw from the one generator each library
\* keeps for the whole process.  The state drawn from by the execution c:
\* (PrivateSource: a generator made afresh, unseeded, by each execution.)
PrivateSource(c) == [seed |-> c, pos |-> run[c].py.pos]

NpSource(c) == run[c].np
PySource(c) == run[c].py

TimeMask ==
    /\ InTime # {}
    /\ LET d == InTime IN
       \E u \in Draws({NpSource(c) : c \in d}, UnitRes(T)),
          r \in Draws({PySource(c) : c \in d}, PyRes(feat0.rows, T)) :
          run' = [c \in runs |->
                    IF c \in d
                    THEN TimeMaskStep(run[c], u[NpSource(c)], r[PySource(c)])
                    ELSE run[c]]
    /\ UNCHANGED <<runs, feat0, T, F, time_mask_num, freq_mask_num>>
    /\ UNCHANGED evars

\* range(time_mask_num) is exhausted: on to the frequency loop.
TimeLoopEnd ==
    /\ \E c \in runs : run[c].pc = "time" /\ ~TimeLoopRuns(run[c])
    /\ run' = [c \in runs |->
                 IF run[c].pc = "time" /\ ~TimeLoopRuns(run[c])
                 THEN [run[c] EXCEPT !.pc = "freq", !.k = 0] ELSE run[c]]
    /\ UNCHANGED <<runs, feat0, T, F, time_mask_num, freq_mask_num>>
    /\ UNCHANGED evars

FreqMask ==
    /\ InFreq # {}
    /\ LET d == InFreq IN
       \E u \in Draws({NpSource(c) : c \in d}, UnitRes(F)),
          r \in Draws({PySource(c) : c \in d}, PyRes(feat0.cols, F)) :
          run' = [c \in runs |->
                    IF c \in d
                    THEN FreqMaskStep(run[c], u[NpSource(c)], r[PySource(c)])
                    ELSE run[c]]
    /\ UNCHANGED <<runs, feat0, T, F, time_mask_num, freq_mask_num>>
    /\ UNCHANGED evars

\* Line 157, "return feat": the object handed back is the argument.
ReturnFeat ==
    /\ \E c \in runs : run[c].pc = "freq" /\ ~FreqLoopRuns(run[c])
    /\ run' = [c \in runs |->
                 IF run[c].pc = "freq" /\ ~FreqLoopRuns(run[c])
                 THEN [run[c] EXCEPT !.pc = "done", !.out = "tensor", !.ret = "feat"]
                 ELSE run[c]]
    /\ UNCHANGED <<runs, feat0, T, F, time_mask_num, freq_mask_num>>
    /\ UNCHANGED evars

NextAugment ==
    \/ CallAugment
    \/ TimeMask
    \/ TimeLoopEnd
    \/ FreqMask
    \/ ReturnFeat

SpecAugment == InitAugment /\ [][NextAugment]_vars

SpecSeeded == InitSeeded /\ [][NextAugment]_vars

\* ===================================================== claims: spec_augment
Finished(rc) == rc.pc \in {"done", "raised"}

\* The maximal runs of consecutive indices in the set S.
Bands(S) == Cardinality({i \in S : (i - 1) \notin S})

\* C1: whatever the generators yield, the span a mask iteration assigns lies
\* inside the matrix: 0 <= t0 and t0 + t <= seq_len for a time mask, 0 <= f0
\* and f0 + f <= feat_size for a frequency mask; the rows and channels zeroed
\* so far are rows and channels of the matrix.
C1_SpanInsideMatrix ==
    \A c \in runs :
       LET rc == run[c] IN
       /\ rc.zrows \subseteq 0..(rc.feat.rows - 1)
       /\ rc.zcols \subseteq 0..(rc.feat.cols - 1)
       /\ TimeLoopRuns(rc) =>
            \A u \in Raw(UnitRes(T)), r \in Raw(PyRes(rc.feat.rows, T)) :
               LET sp == TimeSpan(rc, u, r) IN
               ~sp.raised => 0 <= sp.at /\ sp.at + sp.w <= rc.feat.rows
       /\ FreqLoopRuns(rc) =>
            \A u \in Raw(UnitRes(F)), r \in Raw(PyRes(rc.feat.cols, F)) :
               LET sp == FreqSpan(rc, u, r) IN
               ~sp.raised => 0 <= sp.at /\ sp.at + sp.w <= rc.feat.cols

\* C1 witness: a call that has zeroed a time span and is about to assign a
\* frequency span of positive width.
C1_Witness ==
    \E c \in runs :
       /\ run[c].zrows # {}
       /\ FreqLoopRuns(run[c])
       /\ \E u \in Raw(UnitRes(F)), r \in Raw(PyRes(run[c].feat.cols, F)) :
             ~FreqSpan(run[c], u, r).raised /\ FreqSpan(run[c], u, r).w > 0

\* C2: a call with time_mask_num = 0 and freq_mask_num = 0 returns its
\* argument with every cell as it was, and leaves both generators in the
\* states it found them in.
C2_ZeroMasksUnchanged ==
    \A c \in runs :
       (time_mask_num = 0 /\ freq_mask_num = 0 /\ run[c].pc # "idle") =>
          /\ run[c].feat = feat0
          /\ run[c].np = run[c].np0
          /\ run[c].py = run[c].py0
          /\ run[c].pc # "raised"
          /\ run[c].pc = "done" => run[c].out = "tensor" /\ run[c].ret = "feat"

\* C2 witness: such a call has returned a matrix that has cells.
C2_Witness ==
    \E c \in runs :
       /\ time_mask_num = 0 /\ freq_mask_num = 0
       /\ run[c].pc = "done"
       /\ feat0.rows > 0 /\ feat0.cols > 0
       /\ T > 0 /\ F > 0

\* C8 as stated: there is one generator that all the randomness of a call is
\* drawn from, the other being left as it was, and two calls started with that
\* generator in the same state zero the same spans and return equal matrices.
C8_OneGenerator ==
    \/ /\ \A c \in runs : run[c].py = run[c].py0
       /\ \A c \in runs, e \in runs :
             (Finished(run[c]) /\ Finished(run[e]) /\ run[c].np0 = run[e].np0) =>
                run[c].feat = run[e].feat /\ run[c].out = run[e].out
    \/ /\ \A c \in runs : run[c].np = run[c].np0
       /\ \A c \in runs, e \in runs :
             (Finished(run[c]) /\ Finished(run[e]) /\ run[c].py0 = run[e].py0) =>
                run[c].feat = run[e].feat /\ run[c].out = run[e].out

\* C8 amended: the widths come from numpy's generator and the offsets from
\* Python's; two calls started with both generators in the same states zero
\* the same spans, end the same way and leave both generators in equal states.
C8_BothGenerators ==
    \A c \in runs, e \in runs :
       (run[c].np0 = run[e].np0 /\ run[c].py0 = run[e].py0) =>
          /\ run[c].feat = run[e].feat
          /\ run[c].zrows = run[e].zrows /\ run[c].zcols = run[e].zcols
          /\ run[c].out = run[e].out
          /\ run[c].np = run[e].np /\ run[c].py = run[e].py

\* C8 witness: two calls started with both generators in the same states have
\* returned after zeroing a time span and a frequency span, while a call that
\* shared only one generator's state with them returned another matrix.
C8_Witness ==
    \E c \in runs, e \in runs, g \in runs :
       /\ c # e
       /\ run[c].np0 = run[e].np0 /\ run[c].py0 = run[e].py0
       /\ run[c].pc = "done" /\ run[e].pc = "done" /\ run[g].pc = "done"
       /\ run[c].zrows # {} /\ run[c].zcols # {}
       /\ run[g].feat # run[c].feat

\* C9 as stated: on a matrix with seq_len >= 1 and feat_size >= 1, under
\* bounds T >= 1 and F >= 1, every requested mask is applied and the call
\* returns: it never ends in an exception.
C9_EveryMaskApplied ==
    \A c \in runs :
       (feat0.rows >= 1 /\ feat0.cols >= 1 /\ T >= 1 /\ F >= 1) =>
          /\ run[c].pc # "raised"
          /\ run[c].pc = "done" =>
                /\ run[c].nmask.time = time_mask_num
                /\ run[c].nmask.freq = freq_mask_num

\* C10: the shape never changes; at every point of a call each cell is 0 if
\* its row is in a time band or its channel in a frequency band assigned so
\* far, and holds its value from before the call otherwise; the time bands
\* are at most time_mask_num, the frequency bands at most freq_mask_num; no
\* frequency band is assigned while the time loop runs; what is returned is
\* the argument itself.
C10_ZeroedBands ==
    \A c \in runs :
       LET rc == run[c] IN
       /\ rc.feat.rows = feat0.rows /\ rc.feat.cols = feat0.cols
       /\ \A i \in 1..feat0.rows, j \in 1..feat0.cols :
             rc.feat.cell[i][j] =
                IF (i - 1) \in rc.zrows \/ (j - 1) \in rc.zcols
                THEN 0 ELSE feat0.cell[i][j]
       /\ rc.nmask.time <= time_mask_num /\ Bands(rc.zrows) <= rc.nmask.time
       /\ rc.nmask.freq <= freq_mask_num /\ Bands(rc.zcols) <= rc.nmask.freq
       /\ rc.pc \in {"idle", "time"} => rc.nmask.freq = 0 /\ rc.zcols = {}
       /\ rc.pc \in {"freq", "done"} => rc.nmask.time = time_mask_num
       /\ rc.pc = "done" =>
             /\ rc.nmask.freq = freq_mask_num
             /\ rc.out = "tensor" /\ rc.ret = "feat"

\* C10 witness: a call has returned after zeroing a time band and a frequency
\* band, with a cell outside both that kept its non-zero value.
C10_Witness ==
    \E c \in runs :
       /\ run[c].pc = "done"
       /\ run[c].zrows # {} /\ run[c].zcols # {}
       /\ \E i \in 1..feat0.rows, j \in 1..feat0.cols :
             (i - 1) \notin run[c].zrows /\ (j - 1) \notin run[c].zcols
                /\ run[c].feat.cell[i][j] # 0

\* ==================================================== claims: extractors
\* The calls that have gone past loading the signal.
PastLoad == {c \in 1..ecall : c < ecall \/ epc # "load"}

\* The calls that returned a feature matrix.
Returned == {c \in 1..ecall : eout[c].kind = "tensor"}

Rows(m) == Len(m.dims[1].idx)
Columns(m) == Len(m.dims[2].idx)

\* What the entry at [i, j] of a feature matrix stands for.
Entry(m, i, j) ==
    [kind |-> m.kind, of |-> m.of,
     at |-> {<<m.dims[1].over, m.dims[1].idx[i]>>, <<m.dims[2].over, m.dims[2].idx[j]>>}]

\* The calls c and e were made with the same arguments but for the flag named.
SameBut(c, e, flag) ==
    \A g \in DOMAIN args[c] : g # flag => args[c][g] = args[e][g]

\* C3: a call with a format other than 'pcm' and 'wav' raises ValueError as
\* its first step, whatever the file and the flags: the file has not been
\* opened, nothing has been logged, no signal and no matrix has been computed
\* and nothing is returned.
C3_InvalidFormatRaises ==
    \A c \in 1..ecall :
       args[c].format \notin {"pcm", "wav"} =>
          /\ c = ecall => epc \in {"load", "raised"}
          /\ c \in PastLoad =>
                eout[c] = [kind |-> "ValueError", val |-> Unset, opened |-> 0,
                           logged |-> 0, signal |-> Unset, feat |-> Unset]

\* C3 witness: a call with format 'flac' on a readable file, asked to remove
\* silence, has raised.
C3_Witness ==
    \E c \in PastLoad :
       /\ args[c].format = "flac" /\ file.readable /\ args[c].del_silence
       /\ eout[c].kind = "ValueError"

\* C4: a call with format 'pcm' on a file that cannot be read logs exactly
\* one message and returns None without raising, whatever the flags; it
\* computes no signal and no matrix.
C4_UnreadablePcmReturnsNone ==
    \A c \in 1..ecall :
       (args[c].format = "pcm" /\ ~file.readable) =>
          /\ c = ecall => epc \in {"load", "done"}
          /\ c \in PastLoad =>
                eout[c] = [kind |-> "None", val |-> Unset, opened |-> 1,
                           logged |-> 1, signal |-> Unset, feat |-> Unset]

\* C4 witness: get_librosa_mfcc, asked to remove silence and to reverse, has
\* returned None for an unreadable pcm file.
C4_Witness ==
    \E c \in PastLoad :
       /\ args[c].format = "pcm" /\ ~file.readable
       /\ args[c].fn = "mfcc" /\ args[c].del_silence /\ args[c].input_reverse
       /\ eout[c].kind = "None"

\* C5: of two calls on the same file that differ in input_reverse only, the
\* matrices returned have the same shape, time steps along the first axis and
\* channels along the second, and row i of the reversed one is row N + 1 - i
\* (rows counted from 1) of the other, channel by channel.
C5_ReverseIsTimeReversal ==
    \A c \in Returned, e \in Returned :
       (SameBut(c, e, "input_reverse")
          /\ args[c].input_reverse /\ ~args[e].input_reverse) =>
          LET A == eout[c].val
              B == eout[e].val
          IN  /\ A.dims[1].over = "time" /\ A.dims[2].over = "ch"
              /\ B.dims[1].over = "time" /\ B.dims[2].over = "ch"
              /\ Rows(A) = Rows(B) /\ Columns(A) = Columns(B)
              /\ \A i \in 1..Rows(A), j \in 1..Columns(A) :
                    Entry(A, i, j) = Entry(B, Rows(A) + 1 - i, j)

\* C5 witness: such a pair of log-mel calls with silence removed, more than
\* one channel and more than one time step.
C5_Witness ==
    \E c \in Returned, e \in Returned :
       /\ SameBut(c, e, "input_reverse")
       /\ args[c].input_reverse /\ ~args[e].input_reverse
       /\ args[c].mel_type = "log_mel" /\ args[c].del_silence
       /\ Rows(eout[c].val) > 1 /\ Columns(eout[c].val) > 1
       /\ eout[c].val # eout[e].val

\* The spans are in order, do not overlap and lie inside 0..len.
InOrderWithin(sig, len) ==
    /\ \A i \in 1..Len(sig) : 0 <= sig[i][1] /\ sig[i][1] <= sig[i][2] /\ sig[i][2] <= len
    /\ \A i \in 1..(Len(sig) - 1) : sig[i][2] <= sig[i + 1][1]

HasSilence(f) == \E i \in 1..Len(f.loud) : ~f.loud[i]

\* C6: for a file with a silent region, of two calls that differ in
\* del_silence only, the one that removes silence analyses the non-silent
\* spans of the loaded signal in their order, a signal no longer than the
\* loaded one, and returns a matrix with no more time steps than the other.
C6_SilenceRemovalShortens ==
    \A c \in Returned, e \in Returned :
       (HasSilence(file) /\ SameBut(c, e, "del_silence")
          /\ args[c].del_silence /\ ~args[e].del_silence) =>
          LET A == eout[c].val
              B == eout[e].val
          IN  /\ B.of = <<<<0, file.len>>>>
              /\ InOrderWithin(A.of, file.len)
              /\ SigLen(A.of) <= SigLen(B.of)
              /\ A.dims[1].over = "time" /\ B.dims[1].over = "time"
              /\ Rows(A) <= Rows(B)

\* C6 witness: such a pair where removing silence left two spans and fewer
\* time steps.
C6_Witness ==
    \E c \in Returned, e \in Returned :
       /\ HasSilence(file) /\ SameBut(c, e, "del_silence")
       /\ args[c].del_silence /\ ~args[e].del_silence
       /\ Len(eout[c].val.of) = 2
       /\ Rows(eout[c].val) < Rows(eout[e].val)

====
